---------------------------- MODULE Spec2Model ----------------------------
(***************************************************************************)
(* Model of src/scrapers/python/scraper_cli.py and config.py: the CLI that *)
(* fetches candidate posts, classifies each with the LLM analyzer, filters *)
(* the accepted ones and formats them into ScrapedPost records.            *)
(*                                                                         *)
(* Python strings are sequences of one-character strings, so that          *)
(* str.replace, str.split and str.rstrip are computed as Python computes   *)
(* them.  A confidence score is held in tenths (0.5 is 5).                 *)
(***************************************************************************)
EXTENDS Integers, Sequences, FiniteSets, TLC

VARIABLES
    pc,             \* position of main / scrape_reddit / scrape_x
    argv,           \* args.source, args.since
    config,         \* Config.OPENAI_API_KEY, GOOGLE_API_KEY, GOOGLE_CSE_ID (non-empty?)
    since,          \* main's local `since` after parsing
    calls,          \* the calls made on the collaborators, in order
    candidates,     \* the list the poller returned
    idx,            \* position of the for loop over candidates
    outcomes,       \* what analyzer.analyze did for each candidate so far
    emitted,        \* positions of the candidates whose record was appended
    scraped_posts,  \* the list being built
    error,          \* the exception in flight to main's handler
    stdout,         \* what main printed on the primary channel
    stderr,         \* what main printed on the diagnostic channel
    exit_code,      \* the status passed to sys.exit
    fmt_pc,         \* position of a direct call of candidate_to_scraped_post
    fmt_candidate,  \* its candidate argument
    fmt_source,     \* its source argument
    fmt_result      \* what it returned or raised

vars == <<pc, argv, config, since, calls, candidates, idx, outcomes, emitted,
          scraped_posts, error, stdout, stderr, exit_code,
          fmt_pc, fmt_candidate, fmt_source, fmt_result>>

pipeline_vars == <<pc, argv, config, since, calls, candidates, idx, outcomes,
                   emitted, scraped_posts, error, stdout, stderr, exit_code>>

fmt_vars == <<fmt_pc, fmt_candidate, fmt_source, fmt_result>>

(***************************************************************************)
(* Bounds of the model.                                                    *)
(***************************************************************************)
\* longest candidate list a fetch returns
MaxCandidates == 3
\* most "/"-separated components of a source_url given to the formatter
MaxUrlParts == 4
\* most fragments a native id given to the formatter is made of
MaxIdFrags == 2

(***************************************************************************)
(* Python values.                                                          *)
(***************************************************************************)
\* None where a str is expected: a sequence no string of characters equals
None == <<"None">>

\* truth value of an Optional[str]: None and "" are falsy
Truthy(s) == s # None /\ s # <<>>

S_reddit == <<"r", "e", "d", "d", "i", "t">>
S_x == <<"x">>
S_underscore == <<"_">>
S_Z == <<"Z">>
S_utc_offset == <<"+", "0", "0", ":", "0", "0">>
S_other_offset == <<"+", "0", "5", ":", "0", "0">>
S_datetime == <<"2", "0", "2", "4", "-", "0", "1", "-", "0", "1", "T",
                "0", "0", ":", "0", "0", ":", "0", "0">>
S_junk == <<"s", "o", "o", "n">>

\* the text of a source name
SourceStr(source) == IF source = "reddit" THEN S_reddit ELSE S_x

\* str.replace(old, new): every non-overlapping occurrence, left to right
RECURSIVE Replace(_, _, _)
Replace(s, old, new) ==
    IF Len(s) < Len(old) THEN s
    ELSE IF SubSeq(s, 1, Len(old)) = old
         THEN new \o Replace(SubSeq(s, Len(old) + 1, Len(s)), old, new)
         ELSE <<s[1]>> \o Replace(Tail(s), old, new)

\* str.rstrip(ch): every trailing ch is removed
RECURSIVE RStrip(_, _)
RStrip(s, ch) ==
    IF s # <<>> /\ s[Len(s)] = ch
    THEN RStrip(SubSeq(s, 1, Len(s) - 1), ch)
    ELSE s

\* str.split(sep) for a one-character sep: the list of components
RECURSIVE Split(_, _)
Split(s, sep) ==
    IF \A i \in 1..Len(s) : s[i] # sep
    THEN <<s>>
    ELSE LET i == CHOOSE k \in 1..Len(s) :
                      s[k] = sep /\ \A j \in 1..(k - 1) : s[j] # sep
         IN <<SubSeq(s, 1, i - 1)>> \o Split(SubSeq(s, i + 1, Len(s)), sep)

\* x in parts
Contains(parts, x) == \E i \in 1..Len(parts) : parts[i] = x

\* list.index(x): the first position of x (1-based here)
Index(parts, x) ==
    CHOOSE i \in 1..Len(parts) :
        parts[i] = x /\ \A j \in 1..(i - 1) : parts[j] # x

\* datetime.isoformat(): an aware UTC datetime carries its offset
isoformat(ts) == IF ts.aware THEN ts.text \o S_utc_offset ELSE ts.text

(***************************************************************************)
(* candidate_to_scraped_post                                               *)
(***************************************************************************)
\* lines 42-44: candidate.media.image_url on a candidate without media
\* raises AttributeError
image_urls(candidate) ==
    IF Truthy(candidate.media.image_url)
    THEN <<candidate.media.image_url>>
    ELSE <<>>

\* a plausible slip: the last "r" component instead of the first
ExtractSubreddit_last(source, source_url) ==
    IF source = "reddit" /\ Truthy(source_url)
    THEN LET parts == Split(source_url, "/")
         IN IF Contains(parts, <<"r">>)
            THEN LET i == CHOOSE k \in 1..Len(parts) :
                              parts[k] = <<"r">>
                              /\ \A j \in (k + 1)..Len(parts) : parts[j] # <<"r">>
                 IN IF i + 1 <= Len(parts) THEN parts[i + 1] ELSE None
            ELSE None
    ELSE None

\* lines 46-56: the component after the first "r" component, else None
ExtractSubreddit(source, source_url) ==
    IF source = "reddit" /\ Truthy(source_url)
    THEN LET parts == Split(source_url, "/")
         IN IF Contains(parts, <<"r">>)
            THEN LET i == Index(parts, <<"r">>)
                 IN IF i + 1 <= Len(parts) THEN parts[i + 1] ELSE None
            ELSE None
    ELSE None

\* line 60: candidate.source_id.replace(f"{source}_", "")
StripPrefix(source_id, source) ==
    Replace(source_id, SourceStr(source) \o S_underscore, <<>>)

\* lines 58-67: the result dict before the optional key
BasePost(candidate, source) ==
    [source         |-> source,
     sourceId       |-> StripPrefix(candidate.source_id, source),
     sourceUrl      |-> candidate.source_url,
     authorUsername |-> IF Truthy(candidate.author_username)
                        THEN candidate.author_username
                        ELSE <<"u", "n", "k", "n", "o", "w", "n">>,
     title          |-> IF Truthy(candidate.title) THEN candidate.title ELSE <<>>,
     text           |-> candidate.raw_text,
     imageUrls      |-> image_urls(candidate),
     createdAt      |-> isoformat(candidate.timestamp_detected) \o S_Z]

\* lines 69-70: result["subreddit"] = subreddit, only when truthy
WithSubreddit(post, subreddit) ==
    IF Truthy(subreddit)
    THEN [k \in DOMAIN post \cup {"subreddit"} |->
             IF k = "subreddit" THEN subreddit ELSE post[k]]
    ELSE post

\* lines 31-72: the record, or the exception raised
candidate_to_scraped_post(candidate, source) ==
    IF ~candidate.media.present
    THEN [ok |-> FALSE, exc |-> "AttributeError"]
    ELSE [ok   |-> TRUE,
          post |-> WithSubreddit(BasePost(candidate, source),
                                 ExtractSubreddit(source, candidate.source_url))]

(***************************************************************************)
(* Inputs of a direct call of candidate_to_scraped_post.                   *)
(***************************************************************************)
RECURSIVE Join(_, _)
\* sep.join(parts)
Join(parts, sep) ==
    IF Len(parts) = 0 THEN <<>>
    ELSE IF Len(parts) = 1 THEN parts[1]
    ELSE parts[1] \o <<sep>> \o Join(Tail(parts), sep)

RECURSIVE Concat(_)
\* the fragments one after the other
Concat(frags) ==
    IF Len(frags) = 0 THEN <<>> ELSE frags[1] \o Concat(Tail(frags))

\* the components a source_url is made of: empty, the literal "r", a name
UrlComponents == {<<>>, <<"r">>, <<"T">>}

\* candidate.source_url: None, or up to MaxUrlParts components joined by "/"
UrlInputs ==
    {None} \cup
    {Join(p, "/") : p \in UNION {[1..n -> UrlComponents] : n \in 1..MaxUrlParts}}

\* what a native id is made of: a letter, or text that reads as a prefix
IdFragments == {<<"a">>, S_x \o S_underscore, S_reddit \o S_underscore}

\* native ids of the platform
NativeIds ==
    {Concat(f) : f \in UNION {[1..n -> IdFragments] : n \in 0..MaxIdFrags}}

\* internal ids are namespaced "<source_type>_<native_id>"
SourceId(source, native) == SourceStr(source) \o S_underscore \o native

Media(url) == [present |-> TRUE, image_url |-> url]
NoMedia == [present |-> FALSE]
S_image == <<"i", ".", "p", "n", "g">>
S_author == <<"b", "o", "b">>
S_title == <<"s", "e", "e", "n">>
S_text == <<"c", "a", "r">>
Naive == [text |-> S_datetime, aware |-> FALSE]
Aware == [text |-> S_datetime, aware |-> TRUE]

\* the optional fields and the timestamp of a candidate
FieldVariants ==
    { [media |-> Media(S_image), title |-> S_title, author_username |-> S_author,
       timestamp_detected |-> Naive],
      [media |-> Media(None), title |-> None, author_username |-> None,
       timestamp_detected |-> Naive],
      [media |-> NoMedia, title |-> S_title, author_username |-> S_author,
       timestamp_detected |-> Naive],
      [media |-> Media(S_image), title |-> S_title, author_username |-> S_author,
       timestamp_detected |-> Aware] }

\* a SightingCandidate
Candidate(source_id, source_url, v) ==
    [source_id          |-> source_id,
     source_url         |-> source_url,
     author_username    |-> v.author_username,
     title              |-> v.title,
     raw_text           |-> S_text,
     media              |-> v.media,
     timestamp_detected |-> v.timestamp_detected]

Sources == {"reddit", "x"}

\* main's since = None
NoSince == [none |-> TRUE]
\* no exception in flight
NoError == [raised |-> FALSE]
\* nothing printed on a channel
NotWritten == [written |-> FALSE]
\* sys.exit not called yet
NotExited == -1

\* the pipeline at rest, while the formatter alone is exercised
PipelineIdle ==
    /\ pc = "idle"
    /\ argv = [source |-> "reddit", since |-> None]
    /\ config = [OPENAI_API_KEY |-> TRUE, GOOGLE_API_KEY |-> TRUE,
                 GOOGLE_CSE_ID |-> TRUE]
    /\ since = NoSince
    /\ calls = <<>>
    /\ candidates = <<>>
    /\ idx = 1
    /\ outcomes = <<>>
    /\ emitted = <<>>
    /\ scraped_posts = <<>>
    /\ error = NoError
    /\ stdout = NotWritten
    /\ stderr = NotWritten
    /\ exit_code = NotExited

\* the formatter at rest, while the pipeline runs
FormatIdle ==
    /\ fmt_pc = "idle"
    /\ fmt_candidate = Candidate(SourceId("reddit", <<"a">>), None,
                                 CHOOSE v \in FieldVariants : ~v.media.present)
    /\ fmt_source = "reddit"
    /\ fmt_result = [ok |-> FALSE, exc |-> "none"]

InitFormat ==
    /\ PipelineIdle
    /\ fmt_pc = "call"
    /\ fmt_source \in Sources
    /\ \E n \in NativeIds, u \in UrlInputs, v \in FieldVariants :
           fmt_candidate = Candidate(SourceId(fmt_source, n), u, v)
    /\ fmt_result = [ok |-> FALSE, exc |-> "none"]

\* one call of candidate_to_scraped_post(candidate, source)
Format ==
    /\ fmt_pc = "call"
    /\ fmt_result' = candidate_to_scraped_post(fmt_candidate, fmt_source)
    /\ fmt_pc' = "returned"
    /\ UNCHANGED <<fmt_candidate, fmt_source>>
    /\ UNCHANGED pipeline_vars

NextFormat == Format

SpecFormat == InitFormat /\ [][NextFormat]_vars

(***************************************************************************)
(* main: parsing --since                                                   *)
(***************************************************************************)
\* the offsets datetime.fromisoformat accepts after the date and time
IsoOffsets == {<<>>, S_Z, S_utc_offset, S_other_offset}

\* datetime.fromisoformat(s): the parsed datetime, or ValueError
fromisoformat(s) ==
    IF \E off \in IsoOffsets : s = S_datetime \o off
    THEN [ok |-> TRUE, text |-> S_datetime,
          aware |-> s # S_datetime]
    ELSE [ok |-> FALSE, exc |-> "ValueError"]

\* lines 146-152: None when --since is absent, empty or unparseable;
\* otherwise the parsed date and time with tzinfo replaced by UTC
ParseSince(arg) ==
    IF ~Truthy(arg)
    THEN NoSince
    ELSE LET since_str == Replace(RStrip(arg, "Z"), S_utc_offset, <<>>)
             parsed == fromisoformat(since_str)
         IN IF parsed.ok
            THEN [text |-> parsed.text, aware |-> TRUE]
            ELSE NoSince

\* the values of --since on the command line
SinceArgs ==
    {None,
     S_datetime,
     S_datetime \o S_Z,
     S_datetime \o S_utc_offset,
     S_datetime \o S_Z \o S_Z,
     S_datetime \o S_other_offset,
     S_junk}

\* the environments Config is loaded from (TRUE: the variable is non-empty)
Configs ==
    {[OPENAI_API_KEY |-> TRUE, GOOGLE_API_KEY |-> TRUE, GOOGLE_CSE_ID |-> TRUE],
     [OPENAI_API_KEY |-> FALSE, GOOGLE_API_KEY |-> TRUE, GOOGLE_CSE_ID |-> TRUE],
     [OPENAI_API_KEY |-> TRUE, GOOGLE_API_KEY |-> FALSE, GOOGLE_CSE_ID |-> TRUE],
     [OPENAI_API_KEY |-> TRUE, GOOGLE_API_KEY |-> TRUE, GOOGLE_CSE_ID |-> FALSE],
     [OPENAI_API_KEY |-> FALSE, GOOGLE_API_KEY |-> FALSE, GOOGLE_CSE_ID |-> FALSE]}

(***************************************************************************)
(* Config.validate, scrape_reddit, scrape_x                                *)
(***************************************************************************)
\* a plausible slip: nothing is required
validate_nothing(cfg) == TRUE

\* Config.validate: TRUE when it returns, FALSE when it raises ValueError
validate(cfg) == cfg.OPENAI_API_KEY

\* a plausible slip: `and` for `or`
GoogleMissing_and(cfg) == ~cfg.GOOGLE_API_KEY /\ ~cfg.GOOGLE_CSE_ID

\* line 109: not Config.GOOGLE_API_KEY or not Config.GOOGLE_CSE_ID
GoogleMissing(cfg) == ~cfg.GOOGLE_API_KEY \/ ~cfg.GOOGLE_CSE_ID

\* the constructor of the source's poller
PollerOf(source) == IF source = "reddit" THEN "RedditPoller" ELSE "XPoller"

\* limit=50 of scrape_reddit's fetch_recent_posts
RedditLimit == 50
\* limit=10 of scrape_x's fetch_recent_posts
XLimit == 10

\* the recency-window fetch of each source
RecentCall(source) ==
    IF source = "reddit"
    THEN [op |-> "fetch_recent_posts", limit |-> RedditLimit, time_filter |-> "day"]
    ELSE [op |-> "fetch_recent_posts", limit |-> XLimit]

\* a plausible slip: the test on `since` inverted
FetchCall_inverted(source, s) ==
    IF s = NoSince
    THEN [op |-> "fetch_new_posts_since", since |-> s]
    ELSE RecentCall(source)

\* lines 83-87 and 116-119: which fetch is called
FetchCall(source, s) ==
    IF s # NoSince
    THEN [op |-> "fetch_new_posts_since", since |-> s]
    ELSE RecentCall(source)

\* the threshold 0.5 of lines 95 and 127, in tenths
Threshold == 5

\* lines 95 and 127: the acceptance filter
Accepts(analyzed) ==
    analyzed.confidence_score >= Threshold /\ analyzed.status # "REJECTED"

\* a plausible slip: the new record put first
AppendPost_first(posts, post) == <<post>> \o posts

\* lines 97 and 129: scraped_posts.append(scraped_post)
AppendPost(posts, post) == Append(posts, post)

\* what analyzer.analyze returns when it returns
AnalyzeResults ==
    {[confidence_score |-> 9, status |-> "CONFIRMED"],
     [confidence_score |-> 5, status |-> "PENDING"],
     [confidence_score |-> 3, status |-> "CONFIRMED"],
     [confidence_score |-> 7, status |-> "REJECTED"]}

S_a == <<"a">>
S_b == <<"b">>
S_c == <<"c">>
S_d == <<"d">>
S_e == <<"e">>
\* native ids, one per position of a fetched list
PositionIds == <<S_a, S_b, S_c, S_d, S_e>>

S_url == <<"o", "/", "r", "/", "T", "/", "c">>

\* a candidate with its media, and one without
CandidateKinds == {v \in FieldVariants :
                      v.timestamp_detected = Naive /\ Truthy(v.title)}

\* the lists a poller returns: up to MaxCandidates candidates of distinct ids
FetchLists(source) ==
    UNION {{[i \in 1..n |-> Candidate(SourceId(source, PositionIds[i]), S_url, k[i])] :
               k \in [1..n -> CandidateKinds]} : n \in 0..MaxCandidates}

(***************************************************************************)
(* One invocation of the command.                                          *)
(***************************************************************************)
Init ==
    /\ FormatIdle
    /\ pc = "main"
    /\ argv \in [source : Sources, since : SinceArgs]
    /\ config \in Configs
    /\ since = NoSince
    /\ calls = <<>>
    /\ candidates = <<>>
    /\ idx = 1
    /\ outcomes = <<>>
    /\ emitted = <<>>
    /\ scraped_posts = <<>>
    /\ error = NoError
    /\ stdout = NotWritten
    /\ stderr = NotWritten
    /\ exit_code = NotExited

\* main, lines 139-152: the arguments are parsed
MainParseArgs ==
    /\ pc = "main"
    /\ since' = ParseSince(argv.since)
    /\ pc' = "scrape"
    /\ UNCHANGED <<argv, config, calls, candidates, idx, outcomes, emitted,
                   scraped_posts, error, stdout, stderr, exit_code>>
    /\ UNCHANGED fmt_vars

\* lines 77 and 107: Config.validate() returns or raises
ScrapeValidate ==
    /\ pc = "scrape"
    /\ calls' = Append(calls, [op |-> "Config.validate"])
    /\ IF validate(config)
       THEN /\ pc' = IF argv.source = "x" THEN "x_keys" ELSE "construct"
            /\ error' = error
       ELSE /\ pc' = "except"
            /\ error' = [raised |-> TRUE, msg |-> "OPENAI_API_KEY is required"]
    /\ UNCHANGED <<argv, config, since, candidates, idx, outcomes, emitted,
                   scraped_posts, stdout, stderr, exit_code>>
    /\ UNCHANGED fmt_vars

\* lines 109-110: scrape_x returns [] without its Google keys
XCheckKeys ==
    /\ pc = "x_keys"
    /\ pc' = IF GoogleMissing(config) THEN "print" ELSE "construct"
    /\ UNCHANGED <<argv, config, since, calls, candidates, idx, outcomes, emitted,
                   scraped_posts, error, stdout, stderr, exit_code>>
    /\ UNCHANGED fmt_vars

\* lines 79-80 and 112-113: the poller and the analyzer are constructed
Construct ==
    /\ pc = "construct"
    /\ calls' = calls \o <<[op |-> PollerOf(argv.source)], [op |-> "LLMAnalyzer"]>>
    /\ pc' = "fetch"
    /\ UNCHANGED <<argv, config, since, candidates, idx, outcomes, emitted,
                   scraped_posts, error, stdout, stderr, exit_code>>
    /\ UNCHANGED fmt_vars

\* lines 83-87 and 116-119: the fetch raises; nothing in scrape_* catches it
FetchRaise ==
    /\ pc = "fetch"
    /\ calls' = Append(calls, FetchCall(argv.source, since))
    /\ error' = [raised |-> TRUE, msg |-> "fetch failed"]
    /\ pc' = "except"
    /\ UNCHANGED <<argv, config, since, candidates, idx, outcomes, emitted,
                   scraped_posts, stdout, stderr, exit_code>>
    /\ UNCHANGED fmt_vars

\* lines 83-87 and 116-119: the fetch returns a list of candidates
FetchReturn ==
    /\ pc = "fetch"
    /\ calls' = Append(calls, FetchCall(argv.source, since))
    /\ candidates' \in FetchLists(argv.source)
    /\ idx' = 1
    /\ pc' = "loop"
    /\ UNCHANGED <<argv, config, since, outcomes, emitted, scraped_posts, error,
                   stdout, stderr, exit_code>>
    /\ UNCHANGED fmt_vars

\* lines 91-100 and 123-132: analyzer.analyze raises, the candidate is skipped
AnalyzeRaise ==
    /\ pc = "loop"
    /\ idx <= Len(candidates)
    /\ calls' = Append(calls, [op |-> "analyze", i |-> idx])
    /\ outcomes' = Append(outcomes, [raised |-> TRUE])
    /\ idx' = idx + 1
    /\ UNCHANGED <<pc, argv, config, since, candidates, emitted, scraped_posts,
                   error, stdout, stderr, exit_code>>
    /\ UNCHANGED fmt_vars

\* lines 91-100 and 123-132: analyzer.analyze returns; the candidate is
\* filtered, formatted and appended, and an exception of the formatter is
\* caught by the same handler
AnalyzeReturn ==
    /\ pc = "loop"
    /\ idx <= Len(candidates)
    /\ \E analyzed \in AnalyzeResults :
          LET formatted == candidate_to_scraped_post(candidates[idx], argv.source)
              appended == Accepts(analyzed) /\ formatted.ok
          IN /\ outcomes' = Append(outcomes,
                                   [raised |-> FALSE,
                                    confidence_score |-> analyzed.confidence_score,
                                    status |-> analyzed.status])
             /\ scraped_posts' = IF appended
                                 THEN AppendPost(scraped_posts, formatted.post)
                                 ELSE scraped_posts
             /\ emitted' = IF appended THEN Append(emitted, idx) ELSE emitted
    /\ calls' = Append(calls, [op |-> "analyze", i |-> idx])
    /\ idx' = idx + 1
    /\ UNCHANGED <<pc, argv, config, since, candidates, error, stdout, stderr,
                   exit_code>>
    /\ UNCHANGED fmt_vars

\* lines 102 and 134: return scraped_posts
ScrapeReturn ==
    /\ pc = "loop"
    /\ idx > Len(candidates)
    /\ pc' = "print"
    /\ UNCHANGED <<argv, config, since, calls, candidates, idx, outcomes, emitted,
                   scraped_posts, error, stdout, stderr, exit_code>>
    /\ UNCHANGED fmt_vars

\* a plausible slip: the exception is swallowed into an empty result
MainExcept_swallow ==
    /\ pc = "except"
    /\ stdout' = [written |-> TRUE, json |-> <<>>]
    /\ exit_code' = 0
    /\ pc' = "done"
    /\ UNCHANGED <<argv, config, since, calls, candidates, idx, outcomes, emitted,
                   scraped_posts, error, stderr>>
    /\ UNCHANGED fmt_vars

\* lines 163-165: the array on stdout, exit status 0
MainPrint ==
    /\ pc = "print"
    /\ stdout' = [written |-> TRUE, json |-> scraped_posts]
    /\ exit_code' = 0
    /\ pc' = "done"
    /\ UNCHANGED <<argv, config, since, calls, candidates, idx, outcomes, emitted,
                   scraped_posts, error, stderr>>
    /\ UNCHANGED fmt_vars

\* lines 166-168: the error object on stderr, exit status 1
MainExcept ==
    /\ pc = "except"
    /\ stderr' = [written |-> TRUE, json |-> [error |-> error.msg]]
    /\ exit_code' = 1
    /\ pc' = "done"
    /\ UNCHANGED <<argv, config, since, calls, candidates, idx, outcomes, emitted,
                   scraped_posts, error, stdout>>
    /\ UNCHANGED fmt_vars

Next ==
    \/ MainParseArgs
    \/ ScrapeValidate
    \/ XCheckKeys
    \/ Construct
    \/ FetchRaise
    \/ FetchReturn
    \/ AnalyzeRaise
    \/ AnalyzeReturn
    \/ ScrapeReturn
    \/ MainPrint
    \/ MainExcept

Spec == Init /\ [][Next]_vars

(***************************************************************************)
(* Properties of one invocation.                                           *)
(***************************************************************************)
Done == pc = "done"

\* the invocation ended in the success outcome
SuccessOutcome ==
    /\ stdout.written /\ exit_code = 0 /\ ~stderr.written

\* the invocation ended in the failure outcome
FailureOutcome ==
    /\ stderr.written /\ DOMAIN stderr.json = {"error"}
    /\ exit_code = 1 /\ ~stdout.written

\* the fetch calls made so far
FetchCalls ==
    SelectSeq(calls, LAMBDA c : c.op \in {"fetch_new_posts_since",
                                          "fetch_recent_posts"})

\* the calls made so far on a poller or on the analyzer
CollaboratorCalls ==
    SelectSeq(calls, LAMBDA c : c.op # "Config.validate")

\* the acceptance filter as section 4.4 step 4 states it
PassesFilter(o) == o.status # "REJECTED" /\ o.confidence_score >= 5

\* the record of section 6 for a candidate: no media gives no image
SchemaRecord(candidate, source) ==
    candidate_to_scraped_post(
        [candidate EXCEPT !.media = IF @.present THEN @ ELSE Media(None)],
        source).post

RECURSIVE ExpectedPosts(_)
\* the records of the first n candidates that did not raise and pass the filter
ExpectedPosts(n) ==
    IF n = 0 THEN <<>>
    ELSE IF ~outcomes[n].raised /\ PassesFilter(outcomes[n])
         THEN Append(ExpectedPosts(n - 1), SchemaRecord(candidates[n], argv.source))
         ELSE ExpectedPosts(n - 1)

\* the position in the fetched list of the candidate a record was made from
PositionOf(post) ==
    CHOOSE i \in 1..Len(PositionIds) : PositionIds[i] = post.sourceId

\* C1: once the fetch has returned, the run ends normally and its result is
\* exactly the records of the candidates whose classification did not raise
\* and that pass the acceptance filter, whatever subset raised.
C1_Isolation ==
    /\ pc \in {"loop", "print", "done"} /\ ~error.raised
          => scraped_posts = ExpectedPosts(Len(outcomes))
    /\ Done /\ ~error.raised
          => SuccessOutcome /\ stdout.json = ExpectedPosts(Len(candidates))

\* C2: a classified candidate has a record in the result if and only if its
\* status is not REJECTED and its confidence is at least 0.5.
C2_Threshold ==
    Done /\ ~error.raised =>
        \A i \in 1..Len(candidates) :
            ~outcomes[i].raised =>
                ((\E k \in 1..Len(stdout.json) :
                      stdout.json[k].sourceId = PositionIds[i])
                 <=> PassesFilter(outcomes[i]))

\* C3: the records are in fetch order, one at most per candidate, and each
\* candidate is classified at most once.
C3_FetchOrder ==
    /\ \A k \in 1..Len(scraped_posts) :
          /\ PositionOf(scraped_posts[k]) <= Len(outcomes)
          /\ scraped_posts[k] =
                 candidate_to_scraped_post(
                     candidates[PositionOf(scraped_posts[k])], argv.source).post
          /\ \A l \in (k + 1)..Len(scraped_posts) :
                 PositionOf(scraped_posts[k]) < PositionOf(scraped_posts[l])
    /\ \A i \in 1..Len(PositionIds) :
          Cardinality({j \in 1..Len(calls) :
                          calls[j] = [op |-> "analyze", i |-> i]})
              = IF i <= Len(outcomes) THEN 1 ELSE 0
    /\ Done /\ stdout.written => stdout.json = scraped_posts

\* C3 witness: three candidates fetched, two records printed, one skipped
\* between them
C3_Witness ==
    /\ Done /\ stdout.written
    /\ Len(candidates) = 3
    /\ Len(stdout.json) = 2
    /\ stdout.json[1].sourceId = S_a
    /\ stdout.json[2].sourceId = S_c

\* C4: every invocation ends in exactly one of the two outcomes, none before
\* it ends, and an exception of the fetch ends in the failure outcome with
\* nothing on the primary channel.
C4_Outcomes ==
    /\ ~Done => ~stdout.written /\ ~stderr.written /\ exit_code = NotExited
    /\ Done => (SuccessOutcome /\ ~error.raised) \/ (FailureOutcome /\ error.raised)
    /\ Done /\ error.raised => FailureOutcome /\ stderr.json.error = error.msg

\* C4 witness: the fetch raised and the invocation ended
C4_Witness ==
    /\ Done
    /\ error.raised /\ error.msg = "fetch failed"
    /\ Len(FetchCalls) = 1
    /\ FailureOutcome

\* C5: without OPENAI_API_KEY no poller or analyzer is constructed, nothing
\* is fetched or classified, and the invocation ends in the failure outcome
\* with the configuration error.
C5_FailFast ==
    ~config.OPENAI_API_KEY =>
        /\ CollaboratorCalls = <<>>
        /\ Done => FailureOutcome
                   /\ stderr.json.error = "OPENAI_API_KEY is required"

\* C5 witness: an invocation without the key has ended
C5_Witness ==
    /\ Done
    /\ ~config.OPENAI_API_KEY
    /\ calls = <<[op |-> "Config.validate"]>>
    /\ exit_code = 1

\* a Google credential is absent
OptionalAbsent == ~config.GOOGLE_API_KEY \/ ~config.GOOGLE_CSE_ID

\* the x path ended with an empty array, success, and no collaborator call
EmptySuccess ==
    /\ CollaboratorCalls = <<>>
    /\ Done => SuccessOutcome /\ stdout.json = <<>>

\* C6 as stated: the x path without its optional credentials returns an
\* empty array with success status whatever the rest of the configuration.
C6_Degrades_Original ==
    argv.source = "x" /\ OptionalAbsent => EmptySuccess

\* C6 amended: the x path without its optional credentials returns an empty
\* array with success status, with no fetch and no classification, provided
\* OPENAI_API_KEY is configured.
C6_Degrades ==
    argv.source = "x" /\ OptionalAbsent /\ config.OPENAI_API_KEY => EmptySuccess

\* C6 witness: x, only GOOGLE_API_KEY absent, ended with the empty array
C6_Witness ==
    /\ Done
    /\ argv.source = "x"
    /\ config.OPENAI_API_KEY /\ ~config.GOOGLE_API_KEY /\ config.GOOGLE_CSE_ID
    /\ stdout = [written |-> TRUE, json |-> <<>>]
    /\ exit_code = 0

\* the --since values that are ISO-8601 timestamps
IsoTimestamps == {S_datetime \o off : off \in IsoOffsets}

\* the --since values that are a timestamp once every trailing "Z" and every
\* "+00:00" is removed
AcceptedSince ==
    {S_datetime, S_datetime \o S_Z, S_datetime \o S_utc_offset,
     S_datetime \o S_Z \o S_Z, S_datetime \o S_other_offset}

\* the invocation gets as far as the fetch
ReachesFetch ==
    /\ config.OPENAI_API_KEY
    /\ argv.source = "x" => config.GOOGLE_API_KEY /\ config.GOOGLE_CSE_ID

\* the one fetch call is the watermark fetch exactly for the values in
\* `accepted`, and the recency-window fetch with the defaults otherwise
DispatchOn(accepted) ==
    LET f == FetchCalls[1]
    IN /\ f.op = "fetch_new_posts_since" <=> argv.since \in accepted
       /\ f.op = "fetch_new_posts_since"
             => f.since = [text |-> S_datetime, aware |-> TRUE]
       /\ f.op = "fetch_recent_posts"
             => f = IF argv.source = "reddit"
                    THEN [op |-> "fetch_recent_posts", limit |-> 50,
                          time_filter |-> "day"]
                    ELSE [op |-> "fetch_recent_posts", limit |-> 10]

\* no failure comes from parsing --since
NoParseFailure ==
    /\ pc = "scrape" => ~error.raised
    /\ error.raised => error.msg \in {"OPENAI_API_KEY is required", "fetch failed"}

\* C7 as stated: every invocation makes exactly one fetch call, the watermark
\* fetch if and only if --since is a timestamp, else the recency fetch.
C7_Dispatch_Original ==
    /\ Done => Len(FetchCalls) = 1 /\ DispatchOn(IsoTimestamps)
    /\ NoParseFailure

\* C7 amended: an invocation whose configuration lets it reach the fetch
\* makes exactly one fetch call and any other makes none; the call is the
\* watermark fetch if and only if --since, with every trailing "Z" and every
\* "+00:00" removed, parses as a timestamp, and the recency fetch with the
\* source's defaults otherwise; parsing never fails the invocation.
C7_Dispatch ==
    /\ Done => Len(FetchCalls) = IF ReachesFetch THEN 1 ELSE 0
    /\ Done /\ ReachesFetch => DispatchOn(AcceptedSince)
    /\ Len(FetchCalls) <= 1
    /\ NoParseFailure

\* C7 witness: "...Z" was given and the watermark fetch was called with it
C7_Witness ==
    /\ Done
    /\ argv.since = S_datetime \o S_Z
    /\ FetchCalls = <<[op |-> "fetch_new_posts_since",
                       since |-> [text |-> S_datetime, aware |-> TRUE]]>>

(***************************************************************************)
(* Properties of candidate_to_scraped_post.                                *)
(***************************************************************************)
Returned == fmt_pc = "returned" /\ fmt_result.ok

\* the native id of a namespaced source_id
NativeOf(source_id, source) ==
    SubSeq(source_id, Len(SourceStr(source)) + 2, Len(source_id))

\* C8: the record of a candidate with source_id = s + "_" + n has
\* sourceId = n, whatever n is.
C8_Unprefix ==
    Returned =>
        fmt_result.post.sourceId = NativeOf(fmt_candidate.source_id, fmt_source)

\* the components of the candidate's source_url
UrlParts == Split(fmt_candidate.source_url, "/")

\* the positions of an "r" component followed by a non-empty component
QualifyingR ==
    {i \in 1..(Len(UrlParts) - 1) :
        UrlParts[i] = <<"r">> /\ UrlParts[i + 1] # <<>>}

\* the positions of an "r" component
AnyR == {i \in 1..Len(UrlParts) : UrlParts[i] = <<"r">>}

\* the first "r" component, when it is followed by a non-empty component
FirstQualifyingR ==
    {i \in QualifyingR : \A j \in AnyR : i <= j}

\* the URL never makes the formatter raise, and a subreddit key is never
\* null or empty
SubredditWellFormed ==
    /\ fmt_pc = "returned" /\ fmt_candidate.media.present => fmt_result.ok
    /\ Returned /\ "subreddit" \in DOMAIN fmt_result.post
          => Truthy(fmt_result.post.subreddit)

\* the subreddit key is there exactly for reddit and a URL with an "r"
\* component among `positions`, and holds the component after it
SubredditFrom(positions) ==
    Returned =>
        /\ "subreddit" \in DOMAIN fmt_result.post
              <=> /\ fmt_source = "reddit"
                  /\ fmt_candidate.source_url # None
                  /\ positions # {}
        /\ "subreddit" \in DOMAIN fmt_result.post
              => \E i \in positions : fmt_result.post.subreddit = UrlParts[i + 1]

\* C9 as stated: the key is present iff the source is reddit and some "r"
\* component is followed by a non-empty component, which is then its value.
C9_Subreddit_Original ==
    /\ SubredditWellFormed
    /\ SubredditFrom(IF fmt_candidate.source_url = None THEN {} ELSE QualifyingR)

\* C9 amended: the key is present iff the source is reddit and the first "r"
\* component of the URL is followed by a non-empty component, which is then
\* its value; otherwise the key is absent; the URL never makes the call raise.
C9_Subreddit ==
    /\ SubredditWellFormed
    /\ SubredditFrom(IF fmt_candidate.source_url = None THEN {}
                     ELSE FirstQualifyingR)

\* C9 witness: a reddit URL with two "r" components, the first one followed
\* by the name
C9_Witness ==
    /\ Returned
    /\ fmt_source = "reddit"
    /\ fmt_candidate.source_url # None
    /\ Cardinality(AnyR) = 2
    /\ "subreddit" \in DOMAIN fmt_result.post
    /\ fmt_result.post.subreddit = <<"T">>

\* C10: createdAt ends in a single "Z" and carries no numeric offset, for a
\* naive and for an aware UTC timestamp_detected alike.
C10_CreatedAt ==
    Returned =>
        LET c == fmt_result.post.createdAt
        IN /\ c[Len(c)] = "Z"
           /\ c[Len(c) - 1] # "Z"
           /\ \A i \in 1..Len(c) : c[i] # "+"

=============================================================================
